---- MODULE Spec2Model ----
(***************************************************************************)
(* Model of resize_image.py: one run of the resizer, either started from   *)
(* the command line (main) or by a direct call of resize_image.  The state *)
(* is the filesystem, the standard output, the local variables of          *)
(* resize_image, the pending exception and the program counter.  Three     *)
(* variables only record history: startFs (the filesystem before the run), *)
(* outArg (the output argument as passed) and writes (the files created).  *)
(*                                                                         *)
(* Conventions.  A path or any other string is a sequence of one-character *)
(* strings.  Python's None is the empty tuple and a present value x is the *)
(* one-element tuple <<x>>.  A pixel is the four-byte cell the imaging     *)
(* library stores: <<r,g,b,a>> for RGBA, <<l,l,l,a>> for LA, <<r,g,b,255>> *)
(* for RGB, <<l,l,l,255>> for L and <<i,i,i,255>> for a palette index i.   *)
(***************************************************************************)
EXTENDS Integers, Sequences, FiniteSets, TLC

VARIABLES pc, entry, argv, outArg, input_path, output_path, size, fs, startFs,
          img, img_resized, inputOpen, outputOpen, exc, stdout,
          exitStatus, writes, saveQuality

vars == <<pc, entry, argv, outArg, input_path, output_path, size, fs, startFs,
          img, img_resized, inputOpen, outputOpen, exc, stdout,
          exitStatus, writes, saveQuality>>

-----------------------------------------------------------------------------
(* Bounds of the model *)

\* widest source image, in pixels (source images are MaxW x 1 at most)
MaxW == 1

\* most command-line arguments after the program name
MaxArgs == 3

-----------------------------------------------------------------------------
(* Python values *)

None == <<>>
Some(x) == <<x>>

\* the white of the background canvas, (255, 255, 255)
White == 255

\* the JPEG quality passed to the encoder
Quality == 95

\* the default of the size parameter, (512, 512)
DefaultSize == <<512, 512>>

\* the literal "_512x512" of the derived name
Suffix == <<"_", "5", "1", "2", "x", "5", "1", "2">>

-----------------------------------------------------------------------------
(* String functions *)

\* str.lower(), on the characters the model's paths use
LowerChar(c) ==
  CASE c = "J" -> "j"
    [] c = "P" -> "p"
    [] c = "G" -> "g"
    [] c = "E" -> "e"
    [] c = "O" -> "o"
    [] OTHER -> c

Lower(s) == [i \in 1..Len(s) |-> LowerChar(s[i])]

\* str.endswith(suffix)
EndsWith(s, suf) ==
  /\ Len(suf) <= Len(s)
  /\ SubSeq(s, Len(s) - Len(suf) + 1, Len(s)) = suf

\* str.rfind(c), 1-based, 0 when c does not occur
RFind(s, c) ==
  LET hits == {i \in 1..Len(s) : s[i] = c}
  IN IF hits = {} THEN 0 ELSE CHOOSE i \in hits : \A j \in hits : j <= i

\* os.path.splitext(p): the extension starts at the last dot of the last
\* component, unless only dots precede it in that component
splitext(p) ==
  LET sepIndex == RFind(p, "/")
      dotIndex == RFind(p, ".")
  IN IF /\ dotIndex > sepIndex
        /\ \E k \in (sepIndex + 1)..(dotIndex - 1) : p[k] # "."
     THEN <<SubSeq(p, 1, dotIndex - 1), SubSeq(p, dotIndex, Len(p))>>
     ELSE <<p, <<>>>>

\* os.path.dirname(p), the directory the file is created in
DirName(p) ==
  LET sepIndex == RFind(p, "/")
  IN IF sepIndex = 0 THEN <<>> ELSE SubSeq(p, 1, sepIndex - 1)

-----------------------------------------------------------------------------
(* Images *)

Colours == {<<0, 0, 0>>, <<200, 100, 50>>, <<255, 255, 255>>}
Greys == {0, 100, 255}
Alphas == {0, 128, 255}

\* the colour table and the per-index transparency of the palette images
Palette == <<<<200, 100, 50>>, <<0, 0, 0>>, <<10, 20, 30>>>>
Transparency == <<255, 0, 128>>

Modes == {"RGB", "L", "RGBA", "LA", "P"}

PixelsOf(mode) ==
  CASE mode = "RGBA" -> {<<c[1], c[2], c[3], a>> : c \in Colours, a \in Alphas}
    [] mode = "LA" -> {<<l, l, l, a>> : l \in Greys, a \in Alphas}
    [] mode = "RGB" -> {<<c[1], c[2], c[3], 255>> : c \in Colours}
    [] mode = "L" -> {<<l, l, l, 255>> : l \in Greys}
    [] mode = "P" -> {<<i, i, i, 255>> : i \in 0..(Len(Palette) - 1)}

\* an in-memory image: mode, dimensions, pixel cells in row order, and the
\* palette of a P image
Image(mode, w, h, px) ==
  [mode |-> mode, w |-> w, h |-> h, px |-> px,
   pal |-> IF mode = "P" THEN Palette ELSE <<>>,
   trns |-> IF mode = "P" THEN Transparency ELSE <<>>]

NoImage == Image("", 0, 0, <<>>)

SourceImages ==
  UNION {{Image(mode, w, 1, px) : px \in [1..w -> PixelsOf(mode)]} :
           mode \in Modes, w \in 1..MaxW}

\* Image.new('RGB', size, (255, 255, 255))
NewWhite(w, h) ==
  Image("RGB", w, h, [i \in 1..(w * h) |-> <<White, White, White, 255>>])

\* img.convert('RGBA') of a P image: each index becomes its palette colour
\* with the transparency of that index
ConvertRGBA(im) ==
  Image("RGBA", im.w, im.h,
        [i \in 1..Len(im.px) |->
           LET k == im.px[i][1] + 1
           IN <<im.pal[k][1], im.pal[k][2], im.pal[k][3], im.trns[k]>>])

\* img.split()[-1]: the last band of the image
LastBand(im) == [i \in 1..Len(im.px) |-> im.px[i][4]]

\* the mask argument of the paste: the alpha band for RGBA, else None
PasteMask(im) == IF im.mode = "RGBA" THEN Some(LastBand(im)) ELSE None

\* the library's rounding division by 255
Div255(a) == LET t == a + 128 IN ((t \div 256) + t) \div 256

Blend(out, in, m) == Div255(out * (255 - m) + in * m)

\* background.paste(im, mask=mask) on an RGB background of the same size:
\* without a mask the colour bytes of im's cells are copied as they are,
\* with a mask each channel is blended by the mask value
Paste(background, im, mask) ==
  Image("RGB", background.w, background.h,
        [i \in 1..Len(background.px) |->
           IF mask = None
           THEN <<im.px[i][1], im.px[i][2], im.px[i][3], 255>>
           ELSE LET m == mask[1][i]
                    b == background.px[i]
                    s == im.px[i]
                IN <<Blend(b[1], s[1], m), Blend(b[2], s[2], m),
                     Blend(b[3], s[3], m), 255>>])

\* the mode normalization of resize_image
Normalize(im) ==
  IF im.mode \in {"RGBA", "LA", "P"}
  THEN LET background == NewWhite(im.w, im.h)
           im2 == IF im.mode = "P" THEN ConvertRGBA(im) ELSE im
       IN Paste(background, im2, PasteMask(im2))
  ELSE im

\* a resize that keeps the aspect ratio of the source, fitting it in sz
Resize_KeepAspect(im, sz) ==
  LET byW == <<sz[1], (im.h * sz[1]) \div im.w>>
      byH == <<(im.w * sz[2]) \div im.h, sz[2]>>
      fit == IF byW[2] <= sz[2] THEN byW ELSE byH
  IN Image(im.mode, fit[1], fit[2], <<>>)

\* img.resize(size, LANCZOS): the result has exactly the requested
\* dimensions and the mode of the source; the resampled pixel values are
\* not modelled
Resize(im, sz) == Image(im.mode, sz[1], sz[2], <<>>)

-----------------------------------------------------------------------------
(* The environment: paths, directories and files *)

a_png == <<"a", ".", "p", "n", "g">>
a_JPG == <<"a", ".", "J", "P", "G">>
a_bare == <<"a">>
m_png == <<"m", ".", "p", "n", "g">>
o_png == <<"o", ".", "p", "n", "g">>
o_txt == <<"o", ".", "t", "x", "t">>
dot_jpg == <<".", "j", "p", "g">>
d_o_JPEG == <<"d", "/", "o", ".", "J", "P", "E", "G">>
x_o_png == <<"x", "/", "o", ".", "p", "n", "g">>
r_o_png == <<"r", "/", "o", ".", "p", "n", "g">>
empty_path == <<>>

\* the input paths and the output paths a direct call is tried with
InPaths == {a_png, a_JPG, a_bare, m_png}
OutPaths == {o_png, o_txt, dot_jpg, d_o_JPEG, x_o_png, r_o_png, a_png,
             empty_path}

\* the strings the command line is built from
ArgStrings == {a_png, m_png, d_o_JPEG, x_o_png}

\* the size arguments a direct call is tried with
Sizes == {DefaultSize, <<64, 32>>}

\* directories that exist (the empty name is the working directory; no
\* directory x exists), and those a file can be created in
ExistingDirs == {<<>>, <<"d">>, <<"r">>}
WritableDirs == {<<>>, <<"d">>}

\* the extensions the imaging library has an encoder for
KnownExtensions == {<<".", "p", "n", "g">>, <<".", "j", "p", "g">>,
                    <<".", "j", "p", "e", "g">>}

\* a file: an image file (whose data may be cut short), or other bytes
File(kind, im, truncated, bytes) ==
  [kind |-> kind, img |-> im, truncated |-> truncated, bytes |-> bytes]

ImageFile(im, bytes) == File("image", im, FALSE, bytes)

\* the sizes in bytes of the files the model starts with
InputBytes == 2048
OtherBytes == 700

\* the sizes in bytes the encoder may produce
EncodedSizes == {256, 3000}

OnePixel(mode) == Image(mode, 1, 1, <<CHOOSE c \in PixelsOf(mode) : TRUE>>)

\* the files a.png may hold: any source image, an image whose data is cut
\* short, or a file that is no image
InputFiles ==
  {ImageFile(im, InputBytes) : im \in SourceImages}
    \cup {File("image", OnePixel(mode), TRUE, InputBytes) :
            mode \in {"RGB", "RGBA"}}
    \cup {File("other", NoImage, FALSE, InputBytes)}

\* the filesystems a run may start in: m.png never exists, o.png may
InitialFs ==
  {[q \in {a_png, a_JPG, a_bare} \cup extra |->
      CASE q = a_png -> f
        [] q = a_JPG -> ImageFile(OnePixel("RGB"), OtherBytes)
        [] q = a_bare -> ImageFile(OnePixel("L"), OtherBytes)
        [] OTHER -> File("other", NoImage, FALSE, OtherBytes)] :
     f \in InputFiles, extra \in {{}, {o_png}}}

Exists(files, q) == q \in DOMAIN files

\* the filesystem with q holding f
WriteFile(files, q, f) ==
  [r \in DOMAIN files \cup {q} |-> IF r = q THEN f ELSE files[r]]

\* os.path.getsize(q) of an existing file
getsize(files, q) == files[q].bytes

-----------------------------------------------------------------------------
(* Exceptions and output lines *)

Raise(type, msg) == Some([type |-> type, msg |-> msg])

\* one line of standard output
Line(kind, path, msg, n1, n2) ==
  [kind |-> kind, path |-> path, msg |-> msg, n1 |-> n1, n2 |-> n2]

UsageLines ==
  <<Line("usage", <<>>, "", 0, 0), Line("example", <<>>, "", 0, 0),
    Line("example", <<>>, "", 0, 0)>>

\* x / 1024 printed with one decimal, in tenths of a KB: the quotient by
\* 1024 is exact, so the decimal is rounded half to even
KBTenths(bytes) ==
  LET q == (bytes * 10) \div 1024
      r == (bytes * 10) % 1024
  IN IF r > 512 \/ (r = 512 /\ q % 2 = 1) THEN q + 1 ELSE q

-----------------------------------------------------------------------------
(* The pieces of resize_image and main that decide the claims *)

\* what Image.open(q) raises: FileNotFoundError for a path that does not
\* exist, the library's error for a file that is no image, else nothing
OpenError(files, q) ==
  IF ~Exists(files, q) THEN Raise("FileNotFoundError", "No such file")
  ELSE IF files[q].kind # "image"
       THEN Raise("UnidentifiedImageError", "cannot identify image file")
       ELSE None

\* what reading the pixel data raises: the data of a truncated file ends
\* before the image is complete
LoadError(files, q) ==
  IF files[q].truncated THEN Raise("OSError", "image file is truncated")
  ELSE None

\* the derived output name: f"{base}_512x512{ext}"
DerivePath(q) == LET parts == splitext(q) IN parts[1] \o Suffix \o parts[2]

\* the extension test without lower()
SaveQuality_CaseSensitive(q) ==
  IF \/ EndsWith(q, <<".", "j", "p", "g">>)
     \/ EndsWith(q, <<".", "j", "p", "e", "g">>)
  THEN Some(Quality) ELSE None

\* the quality argument of save: 95 for a name that ends, in lower case,
\* in .jpg or .jpeg, else None
SaveQuality(q) ==
  IF \/ EndsWith(Lower(q), <<".", "j", "p", "g">>)
     \/ EndsWith(Lower(q), <<".", "j", "p", "e", "g">>)
  THEN Some(Quality) ELSE None

\* what save(q) raises before anything is written: the format is chosen by
\* the lower-cased extension, then the file is opened for writing
SaveError(q) ==
  IF Lower(splitext(q)[2]) \notin KnownExtensions
  THEN Raise("ValueError", "unknown file extension")
  ELSE IF DirName(q) \notin ExistingDirs
       THEN Raise("FileNotFoundError", "No such file or directory")
       ELSE IF DirName(q) \notin WritableDirs
            THEN Raise("PermissionError", "Permission denied")
            ELSE None

\* the last argument taken as the output path
OutputArg_Last(args) == IF Len(args) > 1 THEN Some(args[Len(args)]) ELSE None

\* main's choice of the output argument: sys.argv[2] when it is there
OutputArg(args) == IF Len(args) > 1 THEN Some(args[2]) ELSE None

\* the lines the two except clauses print
NotFoundLine(q) == Line("notfound", q, "", 0, 0)
FailedLine(e) == Line("failed", <<>>, e.msg, 0, 0)

-----------------------------------------------------------------------------
(* The state machine *)

Init ==
  /\ pc = "start"
  /\ entry = ""
  /\ argv = <<>>
  /\ outArg = None
  /\ input_path = <<>>
  /\ output_path = None
  /\ size = DefaultSize
  /\ fs \in InitialFs
  /\ startFs = fs
  /\ img = NoImage
  /\ img_resized = NoImage
  /\ inputOpen = FALSE
  /\ outputOpen = FALSE
  /\ exc = None
  /\ stdout = <<>>
  /\ exitStatus = None
  /\ writes = <<>>
  /\ saveQuality = <<>>

Locals == <<img, img_resized, inputOpen, outputOpen, exc>>
Effects == <<fs, startFs, stdout, exitStatus, writes, saveQuality>>
Args == <<entry, argv, outArg, input_path, output_path, size>>

\* the command lines: up to MaxArgs arguments after the program name
CommandLines == UNION {[1..n -> ArgStrings] : n \in 0..MaxArgs}

\* main(): usage and exit 1 without an argument, else resize_image with the
\* first argument, the second one if present, and the default size
Main ==
  /\ pc = "start"
  /\ \E args \in CommandLines :
       /\ entry' = "main"
       /\ argv' = args
       /\ IF Len(args) + 1 < 2
          THEN /\ stdout' = stdout \o UsageLines
               /\ exitStatus' = Some(1)
               /\ pc' = "exited"
               /\ outArg' = None
               /\ UNCHANGED <<input_path, output_path, size>>
          ELSE /\ input_path' = args[1]
               /\ output_path' = OutputArg(args)
               /\ outArg' = output_path'
               /\ size' = DefaultSize
               /\ pc' = "open"
               /\ UNCHANGED <<stdout, exitStatus>>
  /\ UNCHANGED <<Locals, fs, startFs, writes, saveQuality>>

\* a direct call resize_image(input_path, output_path, size)
Call ==
  /\ pc = "start"
  /\ \E inp \in InPaths, out \in {None} \cup {Some(o) : o \in OutPaths},
        sz \in Sizes :
       /\ input_path' = inp
       /\ output_path' = out
       /\ outArg' = out
       /\ size' = sz
  /\ entry' = "call"
  /\ pc' = "open"
  /\ UNCHANGED <<argv, Locals, Effects>>

\* img = Image.open(input_path): the file stays open, its data unread
Open ==
  /\ pc = "open"
  /\ LET e == OpenError(fs, input_path)
     IN IF e # None
        THEN /\ exc' = e
             /\ pc' = "except"
             /\ UNCHANGED <<img, inputOpen>>
        ELSE /\ img' = fs[input_path].img
             /\ inputOpen' = TRUE
             /\ pc' = "normalize"
             /\ UNCHANGED exc
  /\ UNCHANGED <<Args, Effects, img_resized, outputOpen>>

\* the mode normalization: for RGBA, LA and P the pixel data is read (after
\* which the library closes the file) and the image is pasted on white
NormalizeStep ==
  /\ pc = "normalize"
  /\ IF img.mode \in {"RGBA", "LA", "P"}
     THEN LET e == LoadError(fs, input_path)
          IN IF e # None
             THEN /\ exc' = e
                  /\ pc' = "except"
                  /\ UNCHANGED <<img, inputOpen>>
             ELSE /\ img' = Normalize(img)
                  /\ inputOpen' = FALSE
                  /\ pc' = "resize"
                  /\ UNCHANGED exc
     ELSE /\ pc' = "resize"
          /\ UNCHANGED <<img, inputOpen, exc>>
  /\ UNCHANGED <<Args, Effects, img_resized, outputOpen>>

\* img_resized = img.resize(size, LANCZOS): reads the pixel data if that
\* has not happened yet
ResizeStep ==
  /\ pc = "resize"
  /\ LET e == IF inputOpen THEN LoadError(fs, input_path) ELSE None
     IN IF e # None
        THEN /\ exc' = e
             /\ pc' = "except"
             /\ UNCHANGED <<img_resized, inputOpen>>
        ELSE /\ img_resized' = Resize(img, size)
             /\ inputOpen' = FALSE
             /\ pc' = "derive"
             /\ UNCHANGED exc
  /\ UNCHANGED <<Args, Effects, img, outputOpen>>

\* the output name is derived when none was given
DeriveStep ==
  /\ pc = "derive"
  /\ output_path' = IF output_path = None THEN Some(DerivePath(input_path))
                    ELSE output_path
  /\ pc' = "save"
  /\ UNCHANGED <<entry, argv, outArg, input_path, size, Locals, Effects>>

\* the success lines printed before the save is attempted
SaveOpen_PrintsFirst ==
  /\ pc = "save"
  /\ LET q == output_path[1]
         e == SaveError(q)
     IN /\ saveQuality' = Append(saveQuality, SaveQuality(q))
        /\ stdout' = stdout \o <<Line("success", <<>>, "", size[1], size[2]),
                                 Line("saved", q, "", 0, 0)>>
        /\ IF e # None
           THEN /\ exc' = e
                /\ pc' = "except"
                /\ UNCHANGED <<fs, writes, outputOpen>>
           ELSE /\ fs' = WriteFile(fs, q, File("other", NoImage, FALSE, 0))
                /\ writes' = Append(writes, q)
                /\ outputOpen' = TRUE
                /\ pc' = "encode"
                /\ UNCHANGED exc
  /\ UNCHANGED <<Args, startFs, exitStatus, img, img_resized, inputOpen>>

\* img_resized.save(output_path, quality=...), first part: the format is
\* chosen and the file is created (or emptied) and opened
SaveOpen ==
  /\ pc = "save"
  /\ LET q == output_path[1]
         e == SaveError(q)
     IN /\ saveQuality' = Append(saveQuality, SaveQuality(q))
        /\ IF e # None
           THEN /\ exc' = e
                /\ pc' = "except"
                /\ UNCHANGED <<fs, writes, outputOpen>>
           ELSE /\ fs' = WriteFile(fs, q, File("other", NoImage, FALSE, 0))
                /\ writes' = Append(writes, q)
                /\ outputOpen' = TRUE
                /\ pc' = "encode"
                /\ UNCHANGED exc
  /\ UNCHANGED <<Args, startFs, stdout, exitStatus, img, img_resized,
                 inputOpen>>

\* save, second part: the image is encoded into the file, which is closed
SaveWrite ==
  /\ pc = "encode"
  /\ \E n \in EncodedSizes :
       fs' = WriteFile(fs, output_path[1], ImageFile(img_resized, n))
  /\ outputOpen' = FALSE
  /\ pc' = "print"
  /\ UNCHANGED <<Args, startFs, stdout, exitStatus, writes, saveQuality,
                 img, img_resized, inputOpen, exc>>

\* the two lines printed after the save
PrintSaved ==
  /\ pc = "print"
  /\ stdout' = stdout \o <<Line("success", <<>>, "", size[1], size[2]),
                           Line("saved", output_path[1], "", 0, 0)>>
  /\ pc' = "sizes"
  /\ UNCHANGED <<Args, Locals, fs, startFs, exitStatus, writes, saveQuality>>

\* the two file sizes are measured, then printed
ShowSizes ==
  /\ pc = "sizes"
  /\ IF ~Exists(fs, input_path) \/ ~Exists(fs, output_path[1])
     THEN /\ exc' = Raise("FileNotFoundError", "No such file or directory")
          /\ pc' = "except"
          /\ UNCHANGED stdout
     ELSE LET original_size == KBTenths(getsize(fs, input_path))
              new_size == KBTenths(getsize(fs, output_path[1]))
          IN /\ stdout' = stdout \o <<Line("original", <<>>, "", original_size, 0),
                                      Line("new", <<>>, "", new_size, 0)>>
             /\ pc' = "return"
             /\ UNCHANGED exc
  /\ UNCHANGED <<Args, fs, startFs, exitStatus, writes, saveQuality, img,
                 img_resized, inputOpen, outputOpen>>

\* resize_image returns and the script ends: the status will be 0.  The
\* state is that at the end of the operation, before the interpreter is
\* torn down
Return ==
  /\ pc = "return"
  /\ exitStatus' = Some(0)
  /\ pc' = "done"
  /\ UNCHANGED <<Args, Locals, fs, startFs, stdout, writes, saveQuality>>

\* the FileNotFoundError clause shadowed by the generic one
ExceptFileNotFound_AsGeneric ==
  /\ pc = "except"
  /\ exc[1].type = "FileNotFoundError"
  /\ stdout' = Append(stdout, FailedLine(exc[1]))
  /\ exitStatus' = Some(1)
  /\ pc' = "exited"
  /\ UNCHANGED <<Args, Locals, fs, startFs, writes, saveQuality>>

\* except FileNotFoundError: the message names input_path, then sys.exit(1).
\* The state is that at the sys.exit call: the clause closes nothing, and
\* what is still open is released only by the teardown of the interpreter
ExceptFileNotFound ==
  /\ pc = "except"
  /\ exc[1].type = "FileNotFoundError"
  /\ stdout' = Append(stdout, NotFoundLine(input_path))
  /\ exitStatus' = Some(1)
  /\ pc' = "exited"
  /\ UNCHANGED <<Args, Locals, fs, startFs, writes, saveQuality>>

\* the generic clause without its sys.exit(1): the function returns
ExceptException_NoExit ==
  /\ pc = "except"
  /\ exc[1].type # "FileNotFoundError"
  /\ stdout' = Append(stdout, FailedLine(exc[1]))
  /\ pc' = "return"
  /\ UNCHANGED <<Args, Locals, fs, startFs, exitStatus, writes, saveQuality>>

\* except Exception as e: the message carries str(e), then sys.exit(1)
ExceptException ==
  /\ pc = "except"
  /\ exc[1].type # "FileNotFoundError"
  /\ stdout' = Append(stdout, FailedLine(exc[1]))
  /\ exitStatus' = Some(1)
  /\ pc' = "exited"
  /\ UNCHANGED <<Args, Locals, fs, startFs, writes, saveQuality>>

Next ==
  \/ Main
  \/ Call
  \/ Open
  \/ NormalizeStep
  \/ ResizeStep
  \/ DeriveStep
  \/ SaveOpen
  \/ SaveWrite
  \/ PrintSaved
  \/ ShowSizes
  \/ Return
  \/ ExceptFileNotFound
  \/ ExceptException

Spec == Init /\ [][Next]_vars

-----------------------------------------------------------------------------
(* Vocabulary of the claims *)

\* the run is over: the interpreter has exited
Terminated == pc \in {"done", "exited"}

\* resize_image was invoked in this run
Invoked == entry = "call" \/ (entry = "main" /\ Len(argv) >= 1)

\* the kinds of the lines printed so far
Kinds == [i \in 1..Len(stdout) |-> stdout[i].kind]
CountKind(k) == Cardinality({i \in 1..Len(stdout) : stdout[i].kind = k})
ErrorLines == CountKind("notfound") + CountKind("failed")

\* the image the input file held before the run
Source == startFs[input_path].img

\* every file but q is as it was before the run
OnlyChanged(q) ==
  \A r \in (DOMAIN fs \cup DOMAIN startFs) \ {q} :
    r \in DOMAIN fs /\ r \in DOMAIN startFs /\ fs[r] = startFs[r]

-----------------------------------------------------------------------------
(* C1 *)

\* C1: when the input path does not exist, no file is written (the save is
\* never reached), the only line printed is the not-found message naming
\* the input path, and the process ends with status 1.
C1_MissingInput ==
  (Terminated /\ Invoked /\ ~Exists(startFs, input_path)) =>
    /\ writes = <<>>
    /\ saveQuality = <<>>
    /\ fs = startFs
    /\ stdout = <<Line("notfound", input_path, "", 0, 0)>>
    /\ exitStatus = Some(1)

C1_Witness ==
  /\ pc = "exited"
  /\ Invoked
  /\ input_path = m_png
  /\ outArg = Some(o_png)
  /\ CountKind("notfound") = 1

-----------------------------------------------------------------------------
(* C2 *)

\* the colour and the alpha of source pixel i, read from the source file:
\* a palette index stands for its palette entry
SourceColour(i) ==
  IF Source.mode = "P"
  THEN Source.pal[Source.px[i][1] + 1]
  ELSE <<Source.px[i][1], Source.px[i][2], Source.px[i][3]>>

SourceAlpha(i) ==
  IF Source.mode = "P"
  THEN Source.trns[Source.px[i][1] + 1]
  ELSE Source.px[i][4]

\* the normalization has run on an image with alpha or a palette
Normalized ==
  /\ pc = "resize"
  /\ Source.mode \in {"RGBA", "LA", "P"}

\* C2: normalizing an RGBA, LA or P image yields an opaque RGB image of the
\* original dimensions in which every fully transparent source pixel is
\* white and every fully opaque source pixel keeps its colour.
C2_FlattenOnWhite ==
  Normalized =>
    /\ img.mode = "RGB"
    /\ img.w = Source.w
    /\ img.h = Source.h
    /\ \A i \in 1..Len(Source.px) :
         /\ img.px[i][4] = 255
         /\ SourceAlpha(i) = 0 => img.px[i] = <<255, 255, 255, 255>>
         /\ SourceAlpha(i) = 255 =>
              img.px[i] = <<SourceColour(i)[1], SourceColour(i)[2],
                            SourceColour(i)[3], 255>>

-----------------------------------------------------------------------------
(* C3 *)

\* C3: the not-found message is printed exactly when the input path did not
\* exist; every other failure is reported by the generic message, which
\* carries the failure's own text.
C3_NotFoundOnlyForMissingInput ==
  (pc = "exited" /\ Invoked) =>
    IF ~Exists(startFs, input_path)
    THEN Kinds = <<"notfound">>
    ELSE /\ CountKind("notfound") = 0
         /\ stdout[Len(stdout)] = Line("failed", <<>>, exc[1].msg, 0, 0)

-----------------------------------------------------------------------------
(* C6 *)

\* C6: when the operation ends (resize_image has returned or has called
\* sys.exit), on the success path, the not-found path and
\* every processing-failure path, neither the input file nor the output
\* file is still open.
C6_FilesClosedAtEnd ==
  Terminated => (~inputOpen /\ ~outputOpen)

-----------------------------------------------------------------------------
(* C10 *)

\* C10: on success the reported original size is the size the input file
\* had before the run, and the reported new size is the size of the file
\* written, for every output path, the input path itself included.
C10_ReportedSizes ==
  pc = "done" =>
    /\ Kinds = <<"success", "saved", "original", "new">>
    /\ stdout[3].n1 = KBTenths(startFs[input_path].bytes)
    /\ stdout[4].n1 = KBTenths(fs[output_path[1]].bytes)

-----------------------------------------------------------------------------
(* C4 *)

\* decode, normalize, resample, save and report all happened, and nothing
\* was raised
PipelineCompleted ==
  /\ Invoked
  /\ exc = None
  /\ img # NoImage
  /\ img_resized # NoImage
  /\ Len(writes) = 1
  /\ Exists(fs, writes[1])
  /\ fs[writes[1]].kind = "image"
  /\ Kinds = <<"success", "saved", "original", "new">>

\* C4: a run that has ended has status 0 exactly when the whole pipeline
\* completed without failure and status 1 otherwise (usage, not found,
\* processing failure); no other status is produced.
C4_ExitStatus ==
  IF Terminated
  THEN exitStatus = IF PipelineCompleted THEN Some(0) ELSE Some(1)
  ELSE exitStatus = None

C4_Witness ==
  /\ pc = "exited"
  /\ Invoked
  /\ exitStatus = Some(1)
  /\ exc # None
  /\ exc[1].type = "ValueError"
  /\ img_resized # NoImage

-----------------------------------------------------------------------------
(* C5 *)

\* the name the claim expects when no output path is given
ExpectedDerived(q) == splitext(q)[1] \o Suffix \o splitext(q)[2]

\* C5: a successful resize writes exactly one file: at the output path when
\* one was given (whatever was there before), else at base + "_512x512" +
\* ext whatever the size; the written image has exactly the requested
\* dimensions.
C5_OneFileOfRequestedSize ==
  pc = "done" =>
    /\ Len(writes) = 1
    /\ writes[1] = IF outArg # None THEN outArg[1]
                   ELSE ExpectedDerived(input_path)
    /\ OnlyChanged(writes[1])
    /\ fs[writes[1]].kind = "image"
    /\ fs[writes[1]].img.w = size[1]
    /\ fs[writes[1]].img.h = size[2]

C5_Witness ==
  /\ pc = "done"
  /\ outArg = None
  /\ size = <<64, 32>>
  /\ writes = <<<<"a", "_", "5", "1", "2", "x", "5", "1", "2", ".", "p",
                  "n", "g">>>>
  /\ Source.w # 64

-----------------------------------------------------------------------------
(* C7 *)

\* q ends in .jpg or .jpeg, in any mix of upper and lower case
JpegName(q) ==
  LET n == Len(q)
  IN \/ /\ n >= 4
        /\ q[n - 3] = "."
        /\ q[n - 2] \in {"j", "J"}
        /\ q[n - 1] \in {"p", "P"}
        /\ q[n] \in {"g", "G"}
     \/ /\ n >= 5
        /\ q[n - 4] = "."
        /\ q[n - 3] \in {"j", "J"}
        /\ q[n - 2] \in {"p", "P"}
        /\ q[n - 1] \in {"e", "E"}
        /\ q[n] \in {"g", "G"}

\* C7: save is called at most once, with quality 95 exactly when the final
\* output path ends, case-insensitively, in .jpg or .jpeg, and with no
\* quality value (None) for every other path.
C7_QualityForJpegNames ==
  /\ Len(saveQuality) <= 1
  /\ pc \in {"encode", "print", "sizes", "return", "done"} =>
       Len(saveQuality) = 1
  /\ Len(saveQuality) = 1 =>
       saveQuality[1] = IF JpegName(output_path[1]) THEN <<95>> ELSE <<>>

C7_Witness ==
  /\ pc = "done"
  /\ saveQuality = <<<<95>>>>
  /\ output_path[1] = <<"a", "_", "5", "1", "2", "x", "5", "1", "2", ".",
                        "J", "P", "G">>

-----------------------------------------------------------------------------
(* C8 *)

\* C8: from the command line, no argument prints the usage text and exits
\* with 1 without reading or writing a file; one argument resizes to the
\* derived path; two or more resize to the second argument, the others
\* being ignored; the size is always (512, 512).
C8_Dispatch ==
  entry = "main" =>
    IF Len(argv) = 0
    THEN /\ pc = "exited"
         /\ exitStatus = Some(1)
         /\ Kinds = <<"usage", "example", "example">>
         /\ fs = startFs
         /\ writes = <<>>
         /\ img = NoImage
         /\ ~inputOpen
    ELSE /\ input_path = argv[1]
         /\ size = <<512, 512>>
         /\ outArg = IF Len(argv) >= 2 THEN <<argv[2]>> ELSE <<>>
         /\ pc \in {"save", "encode", "print", "sizes", "return", "done"} =>
              output_path = IF Len(argv) >= 2 THEN <<argv[2]>>
                            ELSE <<ExpectedDerived(argv[1])>>

C8_Witness ==
  /\ entry = "main"
  /\ pc = "done"
  /\ Len(argv) = 3
  /\ argv[3] # argv[2]
  /\ writes = <<argv[2]>>

-----------------------------------------------------------------------------
(* C9 *)

\* C9: a run of resize_image that failed printed exactly one error line and
\* no success line; the success and saved-path lines are only ever on the
\* output after the output file has been written, and a run that printed
\* them ends with status 0.
C9_OutputLines ==
  /\ (Invoked /\ exitStatus = Some(1)) =>
       /\ ErrorLines = 1
       /\ CountKind("success") = 0
       /\ CountKind("saved") = 0
  /\ (CountKind("success") > 0 \/ CountKind("saved") > 0) =>
       /\ Len(writes) = 1
       /\ Exists(fs, writes[1])
       /\ fs[writes[1]].kind = "image"
       /\ ErrorLines = 0
       /\ Terminated => exitStatus = Some(0)

C9_Witness ==
  /\ pc = "exited"
  /\ Invoked
  /\ exc # None
  /\ exc[1].type = "PermissionError"
  /\ ErrorLines = 1

====
